---- MODULE Spec2Model ----
\* A model of lambda/index.py: the Lambda entry point lambda_handler and its
\* collaborator call_external_api.  One invocation is a frame (the handler's
\* position and its local variables); each action is one block of the code.
\*
\* Python values are tagged pairs <<tag, payload>>, so that values of
\* different Python types can be compared.  A text (Python str) is a sequence
\* of chunks; a chunk is <<"lit", s>> (the characters s) or <<"json", v>>
\* (the JSON serialisation of the value v).  The Japanese literals of the
\* source are written in ASCII.
EXTENDS Integers, Sequences, FiniteSets, TLC

VARIABLES environ, frame

vars == <<environ, frame>>

\* ------------------------------------------------------------------ bounds

\* Longest conversationHistory a caller sends.
MaxHistory == 1

\* Longest NGROK_ENDPOINT value, in chunks.
MaxEndpointLen == 2

\* ------------------------------------------------------------ Python values

None == <<"null", "null">>

Unbound == <<"unbound", "unbound">>

Str(t) == <<"str", t>>

Obj(f) == <<"obj", f>>

List(q) == <<"list", q>>

Bool(b) == <<"bool", b>>

Lit(s) == << <<"lit", s>> >>

EmptyDict == Obj(<<>>)

\* bool(v) as Python evaluates it in `not v` / `a or b`.
Truthy(v) ==
    CASE v[1] = "null" -> FALSE
      [] v[1] = "bool" -> v[2]
      [] v[1] = "str" -> v[2] # <<>>
      [] v[1] = "list" -> v[2] # <<>>
      [] v[1] = "obj" -> DOMAIN v[2] # {}
      [] OTHER -> TRUE

\* type(v).__name__
TypeName(v) ==
    CASE v[1] = "null" -> "NoneType"
      [] v[1] = "bool" -> "bool"
      [] v[1] = "str" -> "str"
      [] v[1] = "list" -> "list"
      [] v[1] = "obj" -> "dict"
      [] OTHER -> "object"

\* k in d, for a dict d.
Has(d, k) == k \in DOMAIN d[2]

\* d[k], for a dict d that has k.
Get(d, k) == d[2][k]

\* d.get(k, default)
dict_get(d, k, default) == IF Has(d, k) THEN Get(d, k) ELSE default

\* a or b
PyOr(a, b) == IF Truthy(a) THEN a ELSE b

Digits == <<"0", "1", "2", "3", "4", "5", "6", "7", "8", "9">>

RECURSIVE str_int(_)
\* str(n) for a non-negative int, one chunk per digit.
str_int(n) ==
    IF n < 10
    THEN Lit(Digits[n + 1])
    ELSE str_int(n \div 10) \o Lit(Digits[(n % 10) + 1])

RECURSIVE rstrip(_, _)
\* t.rstrip(c): t without its trailing chunks c.
rstrip(t, c) ==
    IF t # <<>> /\ t[Len(t)] = c
    THEN rstrip(SubSeq(t, 1, Len(t) - 1), c)
    ELSE t

\* sub occurs in t.
Contains(t, sub) ==
    \E i \in 0..(Len(t) - Len(sub)) : SubSeq(t, i + 1, i + Len(sub)) = sub

\* json.dumps(v): the text that is the serialisation of v.
json_dumps(v) == << <<"json", v>> >>

\* An exception instance: its class and str() of it.
Exc(cls, msg) == <<cls, msg>>

NoError == <<"none", <<>> >>

\* json.loads(t): <<"ok", value>>, or <<"raise", JSONDecodeError>> when t is
\* not the serialisation of a value.
json_loads(t) ==
    IF Len(t) = 1 /\ t[1][1] = "json"
    THEN <<"ok", t[1][2]>>
    ELSE <<"raise", Exc("JSONDecodeError", Lit("Expecting value: line 1 column 1 (char 0)"))>>

\* v[k] for a str key k: <<"ok", value>> or <<"raise", exception>>.
Subscript(v, k) ==
    CASE v[1] = "obj" ->
            IF Has(v, k)
            THEN <<"ok", Get(v, k)>>
            ELSE <<"raise", Exc("KeyError", Lit("'") \o Lit(k) \o Lit("'"))>>
      [] v[1] = "list" ->
            <<"raise", Exc("TypeError", Lit("list indices must be integers or slices, not str"))>>
      [] v[1] = "str" ->
            <<"raise", Exc("TypeError", Lit("string indices must be integers"))>>
      [] OTHER ->
            <<"raise", Exc("TypeError", Lit("'") \o Lit(TypeName(v)) \o Lit("' object is not subscriptable"))>>

\* The AttributeError of v.name for a value without that attribute.
NoAttribute(v, name) ==
    Exc("AttributeError",
        Lit("'") \o Lit(TypeName(v)) \o Lit("' object has no attribute '") \o Lit(name) \o Lit("'"))

\* os.environ.get(name)
environ_get(env, name) == IF name \in DOMAIN env THEN Str(env[name]) ELSE None

\* ------------------------------------------------------------------ inputs

\* A ConversationMessage.
Message(role, content) == Obj([role |-> Str(Lit(role)), content |-> Str(Lit(content))])

HistoryEntries == {Message("user", "earlier"), Message("assistant", "reply")}

Histories == UNION {[1..n -> HistoryEntries] : n \in 0..MaxHistory}

UserMessages == {Str(Lit("hi")), Str(Lit("bye"))}

\* The JSON documents a caller puts in the body.
InboundDocs ==
    {EmptyDict, List(<<>>), Obj([conversationHistory |-> List(<<>>)])}
    \cup {Obj([message |-> m]) : m \in UserMessages}
    \cup {Obj([message |-> m, conversationHistory |-> None]) : m \in UserMessages}
    \cup {Obj([message |-> m, conversationHistory |-> List(h)]) :
            m \in UserMessages, h \in Histories}

\* The values of event['body'].
Bodies ==
    {None, Str(Lit("not json"))} \cup {Str(json_dumps(d)) : d \in InboundDocs}

\* The values of requestContext.authorizer.claims.
ClaimsValues ==
    { None,
      EmptyDict,
      Obj([email |-> Str(Lit("a@b.c"))]),
      Obj(("cognito:username" :> Str(Lit("alice")))) }

\* The values of event['requestContext'].
RequestContexts ==
    {EmptyDict, Obj([authorizer |-> EmptyDict])}
    \cup {Obj([authorizer |-> Obj([claims |-> c])]) : c \in ClaimsValues}

\* An event with the given keys: ks is a subset of {"body", "requestContext"}.
MkEvent(ks, b, rc) == Obj([k \in ks |-> IF k = "body" THEN b ELSE rc])

Events ==
    {MkEvent({"body", "requestContext"}, b, rc) : b \in Bodies, rc \in RequestContexts}
    \cup {MkEvent({"body"}, b, None) : b \in Bodies}
    \cup {MkEvent({"requestContext"}, None, rc) : rc \in RequestContexts}
    \cup {MkEvent({}, None, None)}

\* The event e with its requestContext key removed (rc = Unbound) or set.
WithRequestContext(e, rc) ==
    IF rc = Unbound
    THEN Obj([k \in DOMAIN e[2] \ {"requestContext"} |-> e[2][k]])
    ELSE Obj([k \in DOMAIN e[2] \cup {"requestContext"} |->
                IF k = "requestContext" THEN rc ELSE e[2][k]])

EndpointChunks == {<<"lit", "http://h">>, <<"lit", "/">>}

\* The values of NGROK_ENDPOINT, the empty string included.
Endpoints == UNION {[1..n -> EndpointChunks] : n \in 0..MaxEndpointLen}

\* os.environ: NGROK_ENDPOINT unset, or set to an endpoint.
Environs == {<<>>} \cup {[NGROK_ENDPOINT |-> e] : e \in Endpoints}

\* The JSON documents the external API answers with.
OutboundDocs ==
    { EmptyDict, None, List(<<>>), List(<<Str(Lit("x"))>>),
      Obj([response |-> Str(Lit("hello"))]),
      Obj([detail |-> Str(Lit("bad"))]),
      Obj([response |-> Str(Lit("hello")), detail |-> Str(Lit("bad"))]) }

\* The bytes of an answer: a text, or bytes whose read/decode raises.
Payloads ==
    {<<"text", Lit("not json")>>, <<"bad", <<>> >>}
    \cup {<<"text", json_dumps(d)>> : d \in OutboundDocs}

Statuses == {200, 201, 404, 422, 500}

\* What urlopen meets: an HTTP answer, a connection-level failure (URLError
\* with a reason), or any other failure (a reset or timeout while reading).
ApiOutcomes ==
    {[kind |-> "answer", status |-> s, payload |-> p] : s \in Statuses, p \in Payloads}
    \cup {[kind |-> "unreachable", status |-> 0, payload |-> <<"text", Lit("Connection refused")>>],
          [kind |-> "broken", status |-> 0, payload |-> <<"bad", <<>> >>]}

NoApi == [kind |-> "none", status |-> 0, payload |-> <<"bad", <<>> >>]

\* ------------------------------------------------------------------- frame

\* The frame of an invocation not yet started.
IdleFrame ==
    [ pc |-> "idle", event |-> Unbound, user_info |-> None, body |-> Unbound,
      message |-> Unbound, conversation_history |-> Unbound, messages |-> Unbound,
      api_endpoint_base |-> Unbound, api_url |-> <<>>, req |-> Unbound,
      api |-> NoApi, sent |-> <<>>, external_response |-> Unbound,
      assistant_response |-> Unbound, error |-> NoError, log |-> <<>>,
      result |-> Unbound ]

\* lambda_handler(event, context) entered: print("Received event:", ...),
\* user_info = None.
NewFrame(e) ==
    [IdleFrame EXCEPT !.pc = "auth", !.event = e,
                      !.log = << <<"Received event:", json_dumps(e)>> >>]

\* A faulty variant of Catches: an `except KeyError` clause.
CatchOnlyKeyError(e) == e[1] = "KeyError"

\* Line 115: the exception classes the `except Exception` clause catches.
Catches(e) ==
    e[1] \in {"Exception", "KeyError", "TypeError", "ValueError",
              "AttributeError", "JSONDecodeError"}

\* An exception raised inside the try block of lambda_handler: control moves
\* to the except clause when it catches e, and leaves the handler otherwise.
Raise(f, e) ==
    [f EXCEPT !.error = e, !.pc = IF Catches(e) THEN "except" ELSE "raised"]

\* print(...): a diagnostic line, label and value.
Log(f, label, value) == [f EXCEPT !.log = Append(@, <<label, value>>)]

\* ---------------------------------------------------------- lambda_handler

\* Lines 78-81: the authorization context, read for the log line.
Auth(f) ==
    LET ev == f.event IN
    IF Has(ev, "requestContext") /\ Has(Get(ev, "requestContext"), "authorizer")
    THEN LET claims == Subscript(Get(Get(ev, "requestContext"), "authorizer"), "claims") IN
         IF claims[1] = "raise"
         THEN Raise(f, claims[2])
         ELSE LET g == [f EXCEPT !.user_info = claims[2]] IN
              IF claims[2][1] # "obj"
              THEN Raise(g, NoAttribute(claims[2], "get"))
              ELSE Log([g EXCEPT !.pc = "parse"], "Authenticated user:",
                       PyOr(dict_get(claims[2], "email", None),
                            dict_get(claims[2], "cognito:username", None)))
    ELSE [f EXCEPT !.pc = "parse"]

\* A faulty variant of Parse: a body that cannot be read counts as {} and
\* message = body.get('message', '').
ParseLenient(f) ==
    LET raw == Subscript(f.event, "body") IN
    LET parsed == IF raw[1] = "ok" /\ raw[2][1] = "str" THEN json_loads(raw[2][2])
                  ELSE <<"ok", EmptyDict>> IN
    LET b == IF parsed[1] = "ok" /\ parsed[2][1] = "obj" THEN parsed[2] ELSE EmptyDict IN
    [f EXCEPT !.body = b,
              !.message = dict_get(b, "message", Str(<<>>)),
              !.conversation_history = dict_get(b, "conversationHistory", List(<<>>)),
              !.pc = "build"]

\* Lines 83-85: body = json.loads(event['body']); message = body['message'];
\* conversation_history = body.get('conversationHistory', []).
Parse(f) ==
    LET raw == Subscript(f.event, "body") IN
    IF raw[1] = "raise" THEN Raise(f, raw[2])
    ELSE IF raw[2][1] # "str"
    THEN Raise(f, Exc("TypeError",
                      Lit("the JSON object must be str, bytes or bytearray, not ")
                      \o Lit(TypeName(raw[2]))))
    ELSE LET parsed == json_loads(raw[2][2]) IN
         IF parsed[1] = "raise" THEN Raise(f, parsed[2])
         ELSE LET g == [f EXCEPT !.body = parsed[2]] IN
              LET msg == Subscript(parsed[2], "message") IN
              IF msg[1] = "raise" THEN Raise(g, msg[2])
              ELSE [g EXCEPT !.message = msg[2],
                             !.conversation_history =
                                 dict_get(parsed[2], "conversationHistory", List(<<>>)),
                             !.pc = "build"]

\* Line 90: the entry of the user's message.
UserEntry(message) == Obj([role |-> Str(Lit("user")), content |-> message])

\* Lines 87-90: messages = conversation_history.copy(), then the user's
\* message appended.
Build(f) ==
    LET g == Log(f, "Processing message:", f.message) IN
    CASE f.conversation_history[1] = "list" ->
            [g EXCEPT !.messages = List(Append(f.conversation_history[2], UserEntry(f.message))),
                      !.pc = "getenv"]
      [] f.conversation_history[1] = "obj" ->
            Raise([g EXCEPT !.messages = f.conversation_history],
                  NoAttribute(f.conversation_history, "append"))
      [] OTHER -> Raise(g, NoAttribute(f.conversation_history, "copy"))

\* ------------------------------------------------------- call_external_api

\* Line 56: the status that gets its own diagnostic line.
UNPROCESSABLE == 422

\* A faulty variant of GetEnv: only an unset variable is rejected, an empty
\* one is not.
GetEnvNoneOnly(f, env) ==
    LET base == environ_get(env, "NGROK_ENDPOINT") IN
    IF base = None
    THEN Raise(f, Exc("ValueError", Lit("The API endpoint is not set in the Lambda environment variables.")))
    ELSE [f EXCEPT !.api_endpoint_base = base, !.pc = "request"]

\* Lines 27-30: the endpoint is read from the environment at call time.
GetEnv(f, env) ==
    LET base == environ_get(env, "NGROK_ENDPOINT") IN
    LET g == [f EXCEPT !.api_endpoint_base = base] IN
    IF ~Truthy(base)
    THEN Raise(Log(g, "Error: environment variable 'NGROK_ENDPOINT' is not set.", None),
               Exc("ValueError", Lit("The API endpoint is not set in the Lambda environment variables.")))
    ELSE [g EXCEPT !.pc = "request"]

\* urllib.request.Request(url, ...) raises ValueError for a URL without a
\* scheme.
HasScheme(url) == url # <<>> /\ url[1] = <<"lit", "http://h">>

\* A faulty variant of BuildRequest: the caller's message is the payload.
BuildRequestForwarding(f) ==
    LET url == rstrip(f.api_endpoint_base[2], <<"lit", "/">>) \o Lit("/generate") IN
    [f EXCEPT !.api_url = url,
              !.req = [ full_url |-> url,
                        data |-> json_dumps(Obj([message |-> f.message])),
                        headers |-> ("Content-Type" :> "application/json"),
                        method |-> "POST" ],
              !.pc = "urlopen"]

\* Lines 32-38: the URL, the fixed payload and the request object.
BuildRequest(f) ==
    LET url == rstrip(f.api_endpoint_base[2], <<"lit", "/">>) \o Lit("/generate") IN
    LET g == Log([f EXCEPT !.api_url = url], "Target API URL:", Str(url)) IN
    LET payload == Obj([message |-> Str(Lit("From Lambda"))]) IN
    LET headers == ("Content-Type" :> "application/json") IN
    IF ~HasScheme(url)
    THEN Raise(g, Exc("ValueError", Lit("unknown url type: '") \o url \o Lit("'")))
    ELSE [g EXCEPT !.req = [ full_url |-> url, data |-> json_dumps(payload),
                             headers |-> headers, method |-> "POST" ],
                   !.pc = "urlopen"]

\* A faulty variant of HttpFailure: the status code is left out.
HttpFailureNoStatus(status_code, error_body) ==
    Lit("External API call failed: ") \o error_body

\* Line 58: the message of the exception raised for an HTTPError.
HttpFailure(status_code, error_body) ==
    Lit("External API call failed (HTTP ") \o str_int(status_code) \o Lit("): ") \o error_body

\* Lines 46-58: the HTTPError clause.
OnHTTPError(f, api) ==
    LET error_body == IF api.payload[1] = "text" THEN api.payload[2]
                      ELSE Lit("(failed to read the response body)") IN
    LET g == Log(Log(f, "HTTPError: Status", Str(str_int(api.status))),
                 "Response Body:", Str(error_body)) IN
    LET h == IF api.status = UNPROCESSABLE
             THEN Log(g, "The external API returned HTTP 422 Unprocessable Entity.", None)
             ELSE g IN
    Raise(h, Exc("Exception", HttpFailure(api.status, error_body)))

\* A faulty variant of UrlOpen: a POST that fails is issued a second time.
UrlOpenWithRetry(f, api) ==
    LET g == [f EXCEPT !.api = api, !.sent = Append(@, f.req)] IN
    IF api.kind = "answer" /\ 200 <= api.status /\ api.status < 300
       /\ api.payload[1] = "text" /\ json_loads(api.payload[2])[1] = "ok"
    THEN [g EXCEPT !.external_response = json_loads(api.payload[2])[2], !.pc = "check"]
    ELSE Raise([g EXCEPT !.sent = Append(@, f.req)],
               Exc("Exception", Lit("An unexpected error occurred while calling the external API.")))

\* Lines 40-70: the POST is issued, and its outcome classified.
UrlOpen(f, api) ==
    LET g == [f EXCEPT !.api = api, !.sent = Append(@, f.req)] IN
    CASE api.kind = "unreachable" ->
            Raise(Log(g, "URLError:", Str(api.payload[2])),
                  Exc("Exception", Lit("Failed to connect to the external API: ") \o api.payload[2]))
      [] api.kind = "answer" /\ ~(200 <= api.status /\ api.status < 300) ->
            OnHTTPError(g, api)
      [] api.kind = "answer" /\ 200 <= api.status /\ api.status < 300
         /\ api.payload[1] = "text" ->
            LET h == Log(g, "Response from external API:", Str(api.payload[2])) IN
            LET parsed == json_loads(api.payload[2]) IN
            IF parsed[1] = "ok"
            THEN [h EXCEPT !.external_response = parsed[2], !.pc = "check"]
            ELSE Raise(Log(h, "The response of the external API could not be parsed as JSON.", None),
                       Exc("Exception", Lit("The response of the external API is not valid JSON.")))
      [] OTHER ->
            Raise(Log(g, "Unexpected error:", None),
                  Exc("Exception", Lit("An unexpected error occurred while calling the external API.")))

\* ------------------------------------------------- lambda_handler, continued

\* Line 96: the placeholder for an answer without `response`.
DefaultResponse == Str(Lit("Default response from API"))

\* Lines 93-98: the answer checked, the assistant's message appended.
Check(f) ==
    IF ~Truthy(f.external_response)
    THEN Raise(f, Exc("Exception", Lit("No response from external API")))
    ELSE IF f.external_response[1] # "obj"
    THEN Raise(f, NoAttribute(f.external_response, "get"))
    ELSE LET r == dict_get(f.external_response, "response", DefaultResponse) IN
         [f EXCEPT !.assistant_response = r,
                   !.messages = List(Append(@[2], Obj([role |-> Str(Lit("assistant")),
                                                       content |-> r]))),
                   !.pc = "return"]

\* Lines 102-107: the headers of the 200 result.
SuccessHeaders ==
    ("Content-Type" :> "application/json")
    @@ ("Access-Control-Allow-Origin" :> "*")
    @@ ("Access-Control-Allow-Headers" :>
            "Content-Type,X-Amz-Date,Authorization,X-Api-Key,X-Amz-Security-Token")
    @@ ("Access-Control-Allow-Methods" :> "OPTIONS,POST")

\* A faulty variant of ErrorHeaders: the CORS headers are left out.
ErrorHeadersNoCors == ("Content-Type" :> "application/json")

\* Lines 119-124: the headers of the 500 result.
ErrorHeaders ==
    ("Content-Type" :> "application/json")
    @@ ("Access-Control-Allow-Origin" :> "*")
    @@ ("Access-Control-Allow-Headers" :>
            "Content-Type,X-Amz-Date,Authorization,X-Api-Key,X-Amz-Security-Token")
    @@ ("Access-Control-Allow-Methods" :> "OPTIONS,POST")

\* Lines 100-113: the 200 result.
Return(f) ==
    [f EXCEPT !.result =
                [ statusCode |-> 200, headers |-> SuccessHeaders,
                  body |-> json_dumps(Obj([ success |-> Bool(TRUE),
                                            response |-> f.assistant_response,
                                            conversationHistory |-> f.messages ])) ],
              !.pc = "done"]

\* Lines 115-129: the 500 result, from str(error).
Except(f) ==
    [Log(f, "Error:", Str(f.error[2])) EXCEPT
        !.result = [ statusCode |-> 500, headers |-> ErrorHeaders,
                     body |-> json_dumps(Obj([ success |-> Bool(FALSE),
                                               error |-> Str(f.error[2]) ])) ],
        !.pc = "done"]

\* One block of the invocation; api is what urlopen meets if it is reached.
Step(f, env, api) ==
    CASE f.pc = "auth" -> Auth(f)
      [] f.pc = "parse" -> Parse(f)
      [] f.pc = "build" -> Build(f)
      [] f.pc = "getenv" -> GetEnv(f, env)
      [] f.pc = "request" -> BuildRequest(f)
      [] f.pc = "urlopen" -> UrlOpen(f, api)
      [] f.pc = "check" -> Check(f)
      [] f.pc = "return" -> Return(f)
      [] f.pc = "except" -> Except(f)
      [] OTHER -> f

RECURSIVE Run(_, _, _)
\* The invocation run to its end: "done" (a result returned) or "raised".
Run(f, env, api) ==
    IF f.pc \in {"idle", "done", "raised"} THEN f ELSE Run(Step(f, env, api), env, api)

\* lambda_handler(event, context) as a whole.
lambda_handler(e, env, api) == Run(NewFrame(e), env, api)

\* ----------------------------------------------------------- state machine

Init ==
    /\ environ \in Environs
    /\ frame = IdleFrame

\* The platform invokes the handler with an event.
Invoke ==
    /\ frame.pc \in {"idle", "done"}
    /\ \E e \in Events : frame' = NewFrame(e)
    /\ UNCHANGED environ

AuthStep == frame.pc = "auth" /\ frame' = Auth(frame) /\ UNCHANGED environ

ParseStep == frame.pc = "parse" /\ frame' = Parse(frame) /\ UNCHANGED environ

BuildStep == frame.pc = "build" /\ frame' = Build(frame) /\ UNCHANGED environ

GetEnvStep == frame.pc = "getenv" /\ frame' = GetEnv(frame, environ) /\ UNCHANGED environ

BuildRequestStep == frame.pc = "request" /\ frame' = BuildRequest(frame) /\ UNCHANGED environ

UrlOpenStep ==
    /\ frame.pc = "urlopen"
    /\ \E api \in ApiOutcomes : frame' = UrlOpen(frame, api)
    /\ UNCHANGED environ

CheckStep == frame.pc = "check" /\ frame' = Check(frame) /\ UNCHANGED environ

ReturnStep == frame.pc = "return" /\ frame' = Return(frame) /\ UNCHANGED environ

ExceptStep == frame.pc = "except" /\ frame' = Except(frame) /\ UNCHANGED environ

Next ==
    \/ Invoke
    \/ AuthStep
    \/ ParseStep
    \/ BuildStep
    \/ GetEnvStep
    \/ BuildRequestStep
    \/ UrlOpenStep
    \/ CheckStep
    \/ ReturnStep
    \/ ExceptStep

Spec == Init /\ [][Next]_vars

\* ------------------------------------------------------------------ claims

Done == frame.pc = "done"

\* The JSON document in the body of the returned result.
ResultDoc == json_loads(frame.result.body)[2]

\* The text in event['body'] is a JSON object with `message` and, when it
\* has `conversationHistory`, a list there.
ValidBody(e) ==
    /\ Has(e, "body")
    /\ Get(e, "body")[1] = "str"
    /\ LET p == json_loads(Get(e, "body")[2]) IN
       /\ p[1] = "ok"
       /\ p[2][1] = "obj"
       /\ Has(p[2], "message")
       /\ Has(p[2], "conversationHistory") => Get(p[2], "conversationHistory")[1] = "list"

\* The document, message and history of a valid body.
InputDoc(e) == json_loads(Get(e, "body")[2])[2]

InputHistory(e) == dict_get(InputDoc(e), "conversationHistory", List(<<>>))[2]

\* event['body'] is absent, not a text, not JSON, or an object without
\* `message`.
MalformedBody(e) ==
    \/ ~Has(e, "body")
    \/ Get(e, "body")[1] # "str"
    \/ LET p == json_loads(Get(e, "body")[2]) IN
       \/ p[1] = "raise"
       \/ p[2][1] = "obj" /\ ~Has(p[2], "message")

EndpointUnset(env) ==
    "NGROK_ENDPOINT" \notin DOMAIN env \/ env["NGROK_ENDPOINT"] = <<>>

\* NGROK_ENDPOINT is set to a URL a request can be made to.
EndpointUsable(env) ==
    /\ ~EndpointUnset(env)
    /\ HasScheme(rstrip(env["NGROK_ENDPOINT"], <<"lit", "/">>) \o Lit("/generate"))

Is2xx(api) == api.kind = "answer" /\ 200 <= api.status /\ api.status < 300

\* The external API answers 2xx with a JSON object.
AnswersObject(api) ==
    /\ Is2xx(api)
    /\ api.payload[1] = "text"
    /\ json_loads(api.payload[2])[1] = "ok"
    /\ json_loads(api.payload[2])[2][1] = "obj"

AnswerDoc(api) == json_loads(api.payload[2])[2]

AnswersWithResponse(api) == AnswersObject(api) /\ Has(AnswerDoc(api), "response")

AssistantEntry(r) == Obj([role |-> Str(Lit("assistant")), content |-> r])

\* The result is the 200 result for the input event e and the answer r.
IsSuccessFor(e, r) ==
    /\ frame.result.statusCode = 200
    /\ Has(ResultDoc, "response") /\ Get(ResultDoc, "response") = r
    /\ Has(ResultDoc, "conversationHistory")
    /\ Get(ResultDoc, "conversationHistory") =
           List(InputHistory(e) \o <<UserEntry(Get(InputDoc(e), "message")), AssistantEntry(r)>>)

\* C1: whenever the body is valid, NGROK_ENDPOINT is set and the external
\* API answers 2xx with an object containing response = R, the result is 200
\* with conversationHistory = H + user message + assistant message and
\* response = R.  (An invocation that issued no request is one the claim
\* covers whatever the API would have answered.)
C1_HistoryExtended ==
    (Done /\ ValidBody(frame.event) /\ EndpointUsable(environ)
          /\ (frame.api = NoApi \/ AnswersWithResponse(frame.api)))
    => /\ frame.api # NoApi
       /\ IsSuccessFor(frame.event, Get(AnswerDoc(frame.api), "response"))

\* C4: whenever the external API answers 2xx with a JSON object that has no
\* `response` key, the empty object included, the result is 200 with the
\* placeholder as `response` and as the content of the assistant message.
C4_MissingResponseDefaults ==
    (Done /\ AnswersObject(frame.api) /\ ~Has(AnswerDoc(frame.api), "response"))
    => IsSuccessFor(frame.event, DefaultResponse)

\* The events that differ from e only in requestContext.
AuthVariants(e) ==
    {WithRequestContext(e, rc) : rc \in RequestContexts \cup {Unbound}}

\* The outcomes the external API may have had in this invocation: the one
\* observed, or any when no request was issued.
PossibleOutcomes == IF frame.api = NoApi THEN ApiOutcomes ELSE {frame.api}

\* C5: the result of an invocation is the result of every invocation that
\* differs from it only in requestContext, under the same environment and
\* the same external API outcome.
C5_AuthorizerIrrelevant ==
    Done => \A e \in AuthVariants(frame.event) : \A api \in PossibleOutcomes :
                lambda_handler(e, environ, api).result = frame.result

\* The result is the 500 result: success false, `error` a string, and neither
\* `response` nor `conversationHistory`.
IsFailure ==
    /\ frame.result.statusCode = 500
    /\ DOMAIN ResultDoc[2] = {"success", "error"}
    /\ Get(ResultDoc, "success") = Bool(FALSE)
    /\ Get(ResultDoc, "error")[1] = "str"

ErrorText == Get(ResultDoc, "error")[2]

\* C2: no invocation leaves the handler by an exception; every block of a
\* running invocation can be taken; and the result returned has statusCode
\* 200 or 500 and a JSON body with a boolean `success` that is true exactly
\* on 200, a 500 body carrying `error` as a string and neither `response` nor
\* `conversationHistory`.
C2_AlwaysStructuredResult ==
    /\ frame.pc # "raised"
    /\ frame.pc \notin {"idle", "done"} => ENABLED Next
    /\ Done =>
        /\ frame.result.statusCode \in {200, 500}
        /\ json_loads(frame.result.body)[1] = "ok"
        /\ ResultDoc[1] = "obj"
        /\ Has(ResultDoc, "success")
        /\ Get(ResultDoc, "success")[1] = "bool"
        /\ Get(ResultDoc, "success")[2] <=> frame.result.statusCode = 200
        /\ frame.result.statusCode = 500 => IsFailure

\* An invocation ended in the 500 result after an exception other than a
\* KeyError (here: the external API answered with something not JSON).
C2_Witness ==
    /\ Done
    /\ frame.result.statusCode = 500
    /\ frame.error[1] = "Exception"
    /\ frame.sent # <<>>

\* The four headers, as the interface lists them.
FixedHeaders ==
    [h \in {"Content-Type", "Access-Control-Allow-Origin",
            "Access-Control-Allow-Headers", "Access-Control-Allow-Methods"} |->
        CASE h = "Content-Type" -> "application/json"
          [] h = "Access-Control-Allow-Origin" -> "*"
          [] h = "Access-Control-Allow-Headers" ->
                "Content-Type,X-Amz-Date,Authorization,X-Api-Key,X-Amz-Security-Token"
          [] h = "Access-Control-Allow-Methods" -> "OPTIONS,POST"]

\* C3: every result returned, 200 or 500, carries exactly the four fixed
\* headers with their literal values.
C3_FixedHeaders == Done => frame.result.headers = FixedHeaders

\* A 500 result was returned (the path whose headers are written separately).
C3_Witness == Done /\ frame.result.statusCode = 500 /\ frame.result.headers = FixedHeaders

ConfigurationError ==
    Exc("ValueError", Lit("The API endpoint is not set in the Lambda environment variables."))

\* C6: with NGROK_ENDPOINT unset or empty, no request is ever issued, the
\* client (once entered) fails with the configuration error without building
\* a request, and every result returned is the 500 result.
C6_NoEndpointNoCall ==
    EndpointUnset(environ) =>
        /\ frame.sent = <<>>
        /\ frame.req = Unbound
        /\ frame.pc \notin {"request", "urlopen", "check", "return"}
        /\ frame.api_endpoint_base # Unbound =>
              frame.pc \in {"except", "done"} /\ frame.error = ConfigurationError
        /\ Done => IsFailure
        /\ (Done /\ frame.messages # Unbound) =>
              ErrorText = ConfigurationError[2]

\* A valid body met an empty NGROK_ENDPOINT and the 500 result was returned.
C6_Witness ==
    /\ Done
    /\ "NGROK_ENDPOINT" \in DOMAIN environ /\ environ["NGROK_ENDPOINT"] = <<>>
    /\ ValidBody(frame.event)
    /\ frame.error = ConfigurationError
    /\ frame.result.statusCode = 500

\* The text of the error body of a non-2xx answer, as the client reads it.
ErrorBodyOf(api) ==
    IF api.payload[1] = "text" THEN api.payload[2]
    ELSE Lit("(failed to read the response body)")

LogLabels == {frame.log[i][1] : i \in 1..Len(frame.log)}

\* C7: after a non-2xx answer with status S the result is the 500 result, its
\* error string contains S and the error body text (the placeholder when the
\* body cannot be read); 422 differs from the other statuses only by one more
\* log line.
C7_HttpFailure ==
    (Done /\ frame.api.kind = "answer" /\ ~Is2xx(frame.api)) =>
        /\ IsFailure
        /\ Contains(ErrorText, str_int(frame.api.status))
        /\ Contains(ErrorText, ErrorBodyOf(frame.api))
        /\ frame.error[1] = "Exception"
        /\ ("The external API returned HTTP 422 Unprocessable Entity." \in LogLabels)
              <=> frame.api.status = UNPROCESSABLE
        /\ \A s \in Statuses \ {frame.api.status} :
              (s < 200 \/ s >= 300) =>
                LET other == lambda_handler(frame.event, environ, [frame.api EXCEPT !.status = s])
                IN /\ other.result.statusCode = frame.result.statusCode
                   /\ other.result.headers = frame.result.headers
                   /\ other.error[1] = frame.error[1]
                   /\ other.sent = frame.sent

\* The external API answered 422 with the body {"detail": "bad"}.
C7_Witness ==
    /\ Done
    /\ frame.api.kind = "answer"
    /\ frame.api.status = UNPROCESSABLE
    /\ frame.api.payload = <<"text", json_dumps(Obj([detail |-> Str(Lit("bad"))]))>>
    /\ frame.result.statusCode = 500

\* The authorization context of e can be read: no authorizer, or an
\* authorizer with a claims mapping.
AuthReadable(e) ==
    (Has(e, "requestContext") /\ Has(Get(e, "requestContext"), "authorizer")) =>
        LET a == Get(Get(e, "requestContext"), "authorizer") IN
        Has(a, "claims") /\ Get(a, "claims")[1] = "obj"

\* str() of the exceptions that name what is missing or malformed in the
\* body of the event.
BodyDefects ==
    { Lit("'") \o Lit("body") \o Lit("'"),
      Lit("'") \o Lit("message") \o Lit("'"),
      Lit("the JSON object must be str, bytes or bytearray, not ") \o Lit("NoneType"),
      Lit("Expecting value: line 1 column 1 (char 0)") }

\* str() of the exceptions that name what is missing or malformed in the
\* authorization context of the event.
AuthDefects ==
    { Lit("'") \o Lit("claims") \o Lit("'"),
      Lit("'") \o Lit("NoneType") \o Lit("' object has no attribute '") \o Lit("get") \o Lit("'") }

ReadyToPost(f) ==
    /\ f.body[1] = "obj"
    /\ Has(f.body, "message")
    /\ f.message = Get(f.body, "message")
    /\ f.api_endpoint_base[1] = "str"
    /\ f.api_endpoint_base[2] # <<>>

C9_AtMostOne ==
    /\ Len(frame.sent) <= 1
    /\ frame.sent # <<>> => ReadyToPost(frame)

C9_Order ==
    /\ (frame'.sent # frame.sent /\ frame'.sent # <<>>) =>
          /\ frame.pc = "urlopen"
          /\ frame.sent = <<>>
          /\ ReadyToPost(frame)
          /\ frame'.sent = <<frame.req>>
    /\ (frame.pc = "urlopen" /\ frame'.pc # "check") => frame'.pc = "except"
    /\ frame.pc = "except" =>
          /\ frame'.pc = "done"
          /\ frame'.sent = frame.sent
          /\ frame'.result.statusCode = 500

\* C9: an invocation issues at most one POST, only from the urlopen block
\* and only once the body was parsed with `message` and the endpoint read
\* non-empty; a POST that fails leads to the except clause, which issues no
\* request and returns the 500 result.
C9_SinglePost == []C9_AtMostOne /\ [][C9_Order]_vars

\* A POST failed and the invocation ended in the 500 result.
C9_Witness ==
    /\ Done
    /\ Len(frame.sent) = 1
    /\ frame.api.kind \in {"answer", "unreachable", "broken"}
    /\ ~Is2xx(frame.api)
    /\ frame.result.statusCode = 500

\* The request the client issues, from the environment alone.
ExpectedRequest(env) ==
    [ full_url |-> rstrip(env["NGROK_ENDPOINT"], <<"lit", "/">>) \o Lit("/generate"),
      data |-> json_dumps(Obj([message |-> Str(Lit("From Lambda"))])),
      headers |-> ("Content-Type" :> "application/json"),
      method |-> "POST" ]

\* The event e with its body replaced by b.
WithBody(e, b) ==
    Obj([k \in DOMAIN e[2] \cup {"body"} |-> IF k = "body" THEN b ELSE e[2][k]])

\* C10: the request issued is a function of NGROK_ENDPOINT alone: the URL is
\* the base without trailing slashes plus /generate, the header is
\* Content-Type: application/json, the body is {"message": "From Lambda"};
\* an invocation with any other body, under the same environment, issues
\* the same request or none.
C10_RequestIndependent ==
    frame.sent # <<>> =>
        /\ frame.sent = <<ExpectedRequest(environ)>>
        /\ frame.pc \in {"check", "except"} =>
              \A b \in Bodies :
                  lambda_handler(WithBody(frame.event, b), environ, frame.api).sent
                      \in {<<>>, frame.sent}

\* A request was issued for the message "bye" with a non-empty history, and
\* the endpoint had a trailing slash.
C10_Witness ==
    /\ frame.pc = "check"
    /\ frame.sent # <<>>
    /\ frame.message = Str(Lit("bye"))
    /\ frame.conversation_history[2] # <<>>
    /\ environ["NGROK_ENDPOINT"] = Lit("http://h") \o Lit("/")

====
